---- MODULE Spec2Model ----
(***************************************************************************)
(* State-machine model of the SupplyChain contract                         *)
(* (src/sc/src/SupplyChain.sol): the identity registry, the asset ledger   *)
(* and the two-phase transfer workflow.                                    *)
(*                                                                         *)
(* One transaction is one step.  A handler is an operator that maps the    *)
(* storage before the call to a result: the revert reason ("" when the     *)
(* call returns normally), the storage as written so far and the events    *)
(* emitted.  The EVM discards the writes and the events of a reverted call *)
(* (Commit).  `last` is the receipt of the latest transaction.             *)
(***************************************************************************)
EXTENDS Integers, Sequences, FiniteSets, TLC

\* ------------------------------------------------------------------ bounds
MaxTokens    == 1   \* token classes minted in a run of the market and the chain
MaxClasses   == 3   \* token classes minted in a run of the ledger
MaxTransfers == 3   \* transfer requests created in a run
MaxSupply    == 3   \* largest totalSupply / amount passed in
\* Stand-in for type(uint96).max = 2^96 - 1, scaled down so that a supply and
\* an amount above it are within the bounds.
MaxUint96    == 2

\* ------------------------------------------------------------- vocabulary
Admin    == "admin"
Users    == {"p1", "p2", "p3", "p4"}
Addr     == {Admin} \cup Users
ZeroAddr == "0x0"

PRODUCER_ROLE == "Producer"
FACTORY_ROLE  == "Factory"
RETAILER_ROLE == "Retailer"
CONSUMER_ROLE == "Consumer"
Roles         == {PRODUCER_ROLE, FACTORY_ROLE, RETAILER_ROLE, CONSUMER_ROLE}

UserStatus     == {"Pending", "Approved", "Rejected", "Canceled"}
TransferStatus == {"Pending", "Accepted", "Rejected"}
TokenType      == {"RawMaterial", "ProcessedProduct", "FinalProduct"}

UserIds     == 1..Cardinality(Addr)
\* Mapping slots of the model: one more than the model ever writes, so that
\* a call made at the cap still has a slot to write
TokenIds    == 1..(MaxClasses + 1)
TransferIds == 1..(MaxTransfers + 1)

\* block.timestamp: the model runs in one block
BlockTimestamp == 1

\* Default (all-zero) values of unwritten mapping slots
ZeroUser == [id |-> 0, userAddress |-> ZeroAddr, role |-> "", status |-> "Pending"]
ZeroToken ==
  [id |-> 0, creator |-> ZeroAddr, name |-> "", totalSupply |-> 0, features |-> "",
   tokenType |-> "RawMaterial", parentId |-> 0, dateCreated |-> 0,
   balance |-> [a \in Addr |-> 0]]
ZeroTransfer ==
  [id |-> 0, from |-> ZeroAddr, to |-> ZeroAddr, tokenId |-> 0, dateCreated |-> 0,
   amount |-> 0, status |-> "Pending"]

VARIABLES
  admin,            \* address public admin
  nextTokenId,      \* uint256 public nextTokenId = 1
  nextTransferId,   \* uint256 public nextTransferId = 1
  nextUserId,       \* uint256 public nextUserId = 1
  tokens,           \* mapping(uint256 => Token)
  transfers,        \* mapping(uint256 => Transfer)
  users,            \* mapping(uint256 => User)
  addressToUserId,  \* mapping(address => uint256)
  userTokenIds,     \* mapping(address => uint256[]) _userTokenIds
  userTransferIds,  \* mapping(address => uint256[]) _userTransferIds
  last              \* receipt of the latest transaction

storageVars == <<admin, nextTokenId, nextTransferId, nextUserId, tokens, transfers,
                 users, addressToUserId, userTokenIds, userTransferIds>>
vars == <<admin, nextTokenId, nextTransferId, nextUserId, tokens, transfers,
          users, addressToUserId, userTokenIds, userTransferIds, last>>

\* The contract storage as one value
Storage ==
  [admin |-> admin, nextTokenId |-> nextTokenId, nextTransferId |-> nextTransferId,
   nextUserId |-> nextUserId, tokens |-> tokens, transfers |-> transfers,
   users |-> users, addressToUserId |-> addressToUserId,
   userTokenIds |-> userTokenIds, userTransferIds |-> userTransferIds]

\* ------------------------------------------------------- call results
\* A call that returns normally, with its writes and its events
Ok(s, ev) == [err |-> "", s |-> s, events |-> ev]
\* require(false, reason) / revert(reason) / arithmetic panic: `s` is the
\* storage as written up to the failing statement
Revert(s, reason) == [err |-> reason, s |-> s, events |-> <<>>]

\* Solidity 0.8 checked arithmetic on uint256
Panic == "Panic(0x11)"

\* What a transaction leaves behind: a revert restores the storage before
\* the call, a normal return keeps the writes.
CommitNoRollback(pre, r) == r.s
Commit(pre, r) == IF r.err = "" THEN r.s ELSE pre

\* ------------------------------------------------------ identity registry
\* keccak256 is taken to be collision free: two role hashes are equal iff
\* the role strings are equal.
\* (mutant) the user counter is not advanced
requestUserRoleSameId(s, sender, role) ==
  IF role \notin Roles THEN Revert(s, "Invalid role")
  ELSE IF s.addressToUserId[sender] # 0 THEN Revert(s, "User already registered")
  ELSE
    LET newUser == [id |-> s.nextUserId, userAddress |-> sender, role |-> role,
                    status |-> "Pending"]
        s1 == [s EXCEPT !.users[s.nextUserId] = newUser,
                        !.addressToUserId[sender] = s.nextUserId]
        ev == <<[event |-> "UserRoleRequested", user |-> sender, role |-> role]>>
    IN Ok(s1, ev)

\* (mutant) a registered account may register again
requestUserRoleAgain(s, sender, role) ==
  IF role \notin Roles THEN Revert(s, "Invalid role")
  ELSE
    LET newUser == [id |-> s.nextUserId, userAddress |-> sender, role |-> role,
                    status |-> "Pending"]
        slot == IF s.nextUserId \in UserIds THEN s.nextUserId ELSE 1
        s1 == [s EXCEPT !.users[slot] = newUser,
                        !.addressToUserId[sender] = slot]
        ev == <<[event |-> "UserRoleRequested", user |-> sender, role |-> role]>>
    IN Ok([s1 EXCEPT !.nextUserId = slot + 1], ev)

requestUserRole(s, sender, role) ==
  IF role \notin Roles THEN Revert(s, "Invalid role")
  ELSE IF s.addressToUserId[sender] # 0 THEN Revert(s, "User already registered")
  ELSE
    LET newUser == [id |-> s.nextUserId, userAddress |-> sender, role |-> role,
                    status |-> "Pending"]
        s1 == [s EXCEPT !.users[s.nextUserId] = newUser,
                        !.addressToUserId[sender] = s.nextUserId]
        ev == <<[event |-> "UserRoleRequested", user |-> sender, role |-> role]>>
    IN Ok([s1 EXCEPT !.nextUserId = s.nextUserId + 1], ev)

\* (mutant) the caller is not checked
changeStatusUserAnyone(s, sender, userAddress, newStatus) ==
  LET userId == s.addressToUserId[userAddress] IN
  IF userId = 0 THEN Revert(s, "User does not exist")
  ELSE Ok([s EXCEPT !.users[userId].status = newStatus],
          <<[event |-> "UserStatusChanged", user |-> userAddress,
             status |-> newStatus]>>)

changeStatusUser(s, sender, userAddress, newStatus) ==
  IF sender # s.admin THEN Revert(s, "Only admin can change user status")
  ELSE
    LET userId == s.addressToUserId[userAddress] IN
    IF userId = 0 THEN Revert(s, "User does not exist")
    ELSE Ok([s EXCEPT !.users[userId].status = newStatus],
            <<[event |-> "UserStatusChanged", user |-> userAddress,
               status |-> newStatus]>>)

getUserInfo(s, userAddress) ==
  LET userId == s.addressToUserId[userAddress] IN
  IF userId = 0 THEN [err |-> "User does not exist", value |-> ZeroUser]
  ELSE [err |-> "", value |-> s.users[userId]]

isAdmin(s, userAddress) == userAddress = s.admin

\* ------------------------------------------------------------ asset ledger
\* (mutant) a Producer may name a parent
createTokenTypeProducerParent(s, role, parentId) ==
  IF role = PRODUCER_ROLE THEN [err |-> "", tokenType |-> "RawMaterial"]
  ELSE IF role = FACTORY_ROLE THEN
    IF ~(parentId > 0) THEN [err |-> "Factory must specify parent token", tokenType |-> "ProcessedProduct"]
    ELSE IF ~(parentId < s.nextTokenId) THEN [err |-> "Parent token does not exist", tokenType |-> "ProcessedProduct"]
    ELSE IF s.tokens[parentId].tokenType # "RawMaterial" THEN [err |-> "Factory input must be RawMaterial", tokenType |-> "ProcessedProduct"]
    ELSE [err |-> "", tokenType |-> "ProcessedProduct"]
  ELSE IF role = RETAILER_ROLE THEN
    IF ~(parentId > 0) THEN [err |-> "Retailer must specify parent token", tokenType |-> "FinalProduct"]
    ELSE IF ~(parentId < s.nextTokenId) THEN [err |-> "Parent token does not exist", tokenType |-> "FinalProduct"]
    ELSE IF s.tokens[parentId].tokenType # "ProcessedProduct" THEN [err |-> "Retailer input must be ProcessedProduct", tokenType |-> "FinalProduct"]
    ELSE [err |-> "", tokenType |-> "FinalProduct"]
  ELSE [err |-> "Consumer cannot create tokens", tokenType |-> "RawMaterial"]

\* (mutant) the kind of the parent is not checked
createTokenTypeAnyParent(s, role, parentId) ==
  IF role = PRODUCER_ROLE THEN
    IF parentId # 0 THEN [err |-> "Producers cannot have parent token", tokenType |-> "RawMaterial"]
    ELSE [err |-> "", tokenType |-> "RawMaterial"]
  ELSE IF role = FACTORY_ROLE THEN
    IF ~(parentId > 0) THEN [err |-> "Factory must specify parent token", tokenType |-> "ProcessedProduct"]
    ELSE IF ~(parentId < s.nextTokenId) THEN [err |-> "Parent token does not exist", tokenType |-> "ProcessedProduct"]
    ELSE [err |-> "", tokenType |-> "ProcessedProduct"]
  ELSE IF role = RETAILER_ROLE THEN
    IF ~(parentId > 0) THEN [err |-> "Retailer must specify parent token", tokenType |-> "FinalProduct"]
    ELSE IF ~(parentId < s.nextTokenId) THEN [err |-> "Parent token does not exist", tokenType |-> "FinalProduct"]
    ELSE [err |-> "", tokenType |-> "FinalProduct"]
  ELSE [err |-> "Consumer cannot create tokens", tokenType |-> "RawMaterial"]

\* The role branch of createToken: the token type, or the revert reason
createTokenType(s, role, parentId) ==
  IF role = PRODUCER_ROLE THEN
    IF parentId # 0 THEN [err |-> "Producers cannot have parent token", tokenType |-> "RawMaterial"]
    ELSE [err |-> "", tokenType |-> "RawMaterial"]
  ELSE IF role = FACTORY_ROLE THEN
    IF ~(parentId > 0) THEN [err |-> "Factory must specify parent token", tokenType |-> "ProcessedProduct"]
    ELSE IF ~(parentId < s.nextTokenId) THEN [err |-> "Parent token does not exist", tokenType |-> "ProcessedProduct"]
    ELSE IF s.tokens[parentId].tokenType # "RawMaterial" THEN [err |-> "Factory input must be RawMaterial", tokenType |-> "ProcessedProduct"]
    ELSE [err |-> "", tokenType |-> "ProcessedProduct"]
  ELSE IF role = RETAILER_ROLE THEN
    IF ~(parentId > 0) THEN [err |-> "Retailer must specify parent token", tokenType |-> "FinalProduct"]
    ELSE IF ~(parentId < s.nextTokenId) THEN [err |-> "Parent token does not exist", tokenType |-> "FinalProduct"]
    ELSE IF s.tokens[parentId].tokenType # "ProcessedProduct" THEN [err |-> "Retailer input must be ProcessedProduct", tokenType |-> "FinalProduct"]
    ELSE [err |-> "", tokenType |-> "FinalProduct"]
  ELSE [err |-> "Consumer cannot create tokens", tokenType |-> "RawMaterial"]

\* (mutant) the creator must hold units of the parent
createTokenOwnedParent(s, sender, name, totalSupply, features, parentId) ==
  LET userId == s.addressToUserId[sender] IN
  IF userId = 0 THEN Revert(s, "User not registered")
  ELSE IF s.users[userId].status # "Approved" THEN Revert(s, "User not approved")
  ELSE IF name = "" THEN Revert(s, "Name cannot be empty")
  ELSE IF ~(totalSupply > 0) THEN Revert(s, "Total supply must be greater than 0")
  ELSE
    LET tt == createTokenType(s, s.users[userId].role, parentId) IN
    IF tt.err # "" THEN Revert(s, tt.err)
    ELSE IF parentId # 0 /\ s.tokens[parentId].balance[sender] = 0
      THEN Revert(s, "Parent token not owned")
    ELSE
      LET newToken ==
            [id |-> s.nextTokenId, creator |-> sender, name |-> name,
             totalSupply |-> totalSupply, features |-> features,
             tokenType |-> tt.tokenType, parentId |-> parentId,
             dateCreated |-> BlockTimestamp,
             balance |-> [s.tokens[s.nextTokenId].balance EXCEPT ![sender] = totalSupply]]
          s1 == [s EXCEPT !.tokens[s.nextTokenId] = newToken,
                          !.userTokenIds[sender] = Append(@, s.nextTokenId)]
          ev == <<[event |-> "TokenCreated", tokenId |-> s.nextTokenId,
                   creator |-> sender, name |-> name, totalSupply |-> totalSupply]>>
      IN Ok([s1 EXCEPT !.nextTokenId = s.nextTokenId + 1], ev)

\* (mutant) the new class is not added to the creator's list
createTokenNoIndex(s, sender, name, totalSupply, features, parentId) ==
  LET userId == s.addressToUserId[sender] IN
  IF userId = 0 THEN Revert(s, "User not registered")
  ELSE IF s.users[userId].status # "Approved" THEN Revert(s, "User not approved")
  ELSE IF name = "" THEN Revert(s, "Name cannot be empty")
  ELSE IF ~(totalSupply > 0) THEN Revert(s, "Total supply must be greater than 0")
  ELSE
    LET tt == createTokenType(s, s.users[userId].role, parentId) IN
    IF tt.err # "" THEN Revert(s, tt.err)
    ELSE
      LET newToken ==
            [id |-> s.nextTokenId, creator |-> sender, name |-> name,
             totalSupply |-> totalSupply, features |-> features,
             tokenType |-> tt.tokenType, parentId |-> parentId,
             dateCreated |-> BlockTimestamp,
             balance |-> [s.tokens[s.nextTokenId].balance EXCEPT ![sender] = totalSupply]]
          s1 == [s EXCEPT !.tokens[s.nextTokenId] = newToken]
          ev == <<[event |-> "TokenCreated", tokenId |-> s.nextTokenId,
                   creator |-> sender, name |-> name, totalSupply |-> totalSupply]>>
      IN Ok([s1 EXCEPT !.nextTokenId = s.nextTokenId + 1], ev)

\* (mutant) the status of the creator is not checked
createTokenAnyStatus(s, sender, name, totalSupply, features, parentId) ==
  LET userId == s.addressToUserId[sender] IN
  IF userId = 0 THEN Revert(s, "User not registered")
  ELSE IF name = "" THEN Revert(s, "Name cannot be empty")
  ELSE IF ~(totalSupply > 0) THEN Revert(s, "Total supply must be greater than 0")
  ELSE
    LET tt == createTokenType(s, s.users[userId].role, parentId) IN
    IF tt.err # "" THEN Revert(s, tt.err)
    ELSE
      LET newToken ==
            [id |-> s.nextTokenId, creator |-> sender, name |-> name,
             totalSupply |-> totalSupply, features |-> features,
             tokenType |-> tt.tokenType, parentId |-> parentId,
             dateCreated |-> BlockTimestamp,
             balance |-> [s.tokens[s.nextTokenId].balance EXCEPT ![sender] = totalSupply]]
          s1 == [s EXCEPT !.tokens[s.nextTokenId] = newToken,
                          !.userTokenIds[sender] = Append(@, s.nextTokenId)]
          ev == <<[event |-> "TokenCreated", tokenId |-> s.nextTokenId,
                   creator |-> sender, name |-> name, totalSupply |-> totalSupply]>>
      IN Ok([s1 EXCEPT !.nextTokenId = s.nextTokenId + 1], ev)

createToken(s, sender, name, totalSupply, features, parentId) ==
  LET userId == s.addressToUserId[sender] IN
  IF userId = 0 THEN Revert(s, "User not registered")
  ELSE IF s.users[userId].status # "Approved" THEN Revert(s, "User not approved")
  ELSE IF name = "" THEN Revert(s, "Name cannot be empty")
  ELSE IF ~(totalSupply > 0) THEN Revert(s, "Total supply must be greater than 0")
  ELSE
    LET tt == createTokenType(s, s.users[userId].role, parentId) IN
    IF tt.err # "" THEN Revert(s, tt.err)
    ELSE
      LET newToken ==
            [id |-> s.nextTokenId, creator |-> sender, name |-> name,
             totalSupply |-> totalSupply, features |-> features,
             tokenType |-> tt.tokenType, parentId |-> parentId,
             dateCreated |-> BlockTimestamp,
             balance |-> [s.tokens[s.nextTokenId].balance EXCEPT ![sender] = totalSupply]]
          s1 == [s EXCEPT !.tokens[s.nextTokenId] = newToken,
                          !.userTokenIds[sender] = Append(@, s.nextTokenId)]
          ev == <<[event |-> "TokenCreated", tokenId |-> s.nextTokenId,
                   creator |-> sender, name |-> name, totalSupply |-> totalSupply]>>
      IN Ok([s1 EXCEPT !.nextTokenId = s.nextTokenId + 1], ev)

getToken(s, tokenId) ==
  IF ~(tokenId > 0 /\ tokenId < s.nextTokenId)
  THEN [err |-> "Token does not exist", value |-> ZeroToken]
  ELSE [err |-> "", value |-> s.tokens[tokenId]]

getTokenBalance(s, tokenId, userAddress) ==
  IF ~(tokenId > 0 /\ tokenId < s.nextTokenId)
  THEN [err |-> "Token does not exist", value |-> 0]
  ELSE [err |-> "", value |-> s.tokens[tokenId].balance[userAddress]]

getUserTokens(s, userAddress) == s.userTokenIds[userAddress]

\* (mutant) nothing is removed
removeTokenIdKeeps(ids, tokenId) == ids

\* Swap and pop: the first occurrence of tokenId is overwritten by the last
\* element and the last element is dropped; no occurrence, no change.
removeTokenId(ids, tokenId) ==
  LET hits == {i \in 1..Len(ids) : ids[i] = tokenId} IN
  IF hits = {} THEN ids
  ELSE LET i == CHOOSE k \in hits : \A j \in hits : k <= j
           moved == [ids EXCEPT ![i] = ids[Len(ids)]]
       IN SubSeq(moved, 1, Len(ids) - 1)

\* ------------------------------------------------------- transfer workflow
\* (mutant) only the Consumer rule is kept
roleFlowConsumerOnly(senderRole, recipientRole) ==
  IF senderRole = CONSUMER_ROLE THEN "Consumer cannot transfer" ELSE ""

\* (mutant) a Consumer may send units to another Consumer or to a Retailer
roleFlowConsumerResells(senderRole, recipientRole) ==
  IF senderRole = PRODUCER_ROLE THEN
    IF recipientRole = FACTORY_ROLE THEN "" ELSE "Producer can only transfer to Factory"
  ELSE IF senderRole = FACTORY_ROLE THEN
    IF recipientRole = RETAILER_ROLE THEN "" ELSE "Factory can only transfer to Retailer"
  ELSE IF senderRole = RETAILER_ROLE THEN
    IF recipientRole = CONSUMER_ROLE THEN "" ELSE "Retailer can only transfer to Consumer"
  ELSE IF senderRole = CONSUMER_ROLE THEN
    IF recipientRole \in {CONSUMER_ROLE, RETAILER_ROLE} THEN ""
    ELSE "Consumer cannot transfer"
  ELSE ""

\* (mutant) a Factory may also send units back to a Producer
roleFlowFactoryReturns(senderRole, recipientRole) ==
  IF senderRole = PRODUCER_ROLE THEN
    IF recipientRole = FACTORY_ROLE THEN "" ELSE "Producer can only transfer to Factory"
  ELSE IF senderRole = FACTORY_ROLE THEN
    IF recipientRole \in {RETAILER_ROLE, PRODUCER_ROLE} THEN ""
    ELSE "Factory can only transfer to Retailer"
  ELSE IF senderRole = RETAILER_ROLE THEN
    IF recipientRole = CONSUMER_ROLE THEN "" ELSE "Retailer can only transfer to Consumer"
  ELSE IF senderRole = CONSUMER_ROLE THEN "Consumer cannot transfer"
  ELSE ""

\* (mutant) the Consumer rule is dropped
roleFlowConsumerSends(senderRole, recipientRole) ==
  IF senderRole = PRODUCER_ROLE THEN
    IF recipientRole = FACTORY_ROLE THEN "" ELSE "Producer can only transfer to Factory"
  ELSE IF senderRole = FACTORY_ROLE THEN
    IF recipientRole = RETAILER_ROLE THEN "" ELSE "Factory can only transfer to Retailer"
  ELSE IF senderRole = RETAILER_ROLE THEN
    IF recipientRole = CONSUMER_ROLE THEN "" ELSE "Retailer can only transfer to Consumer"
  ELSE ""

\* The supply-chain flow validation of transfer: the revert reason, "" when
\* the pair of roles passes
roleFlow(senderRole, recipientRole) ==
  IF senderRole = PRODUCER_ROLE THEN
    IF recipientRole = FACTORY_ROLE THEN "" ELSE "Producer can only transfer to Factory"
  ELSE IF senderRole = FACTORY_ROLE THEN
    IF recipientRole = RETAILER_ROLE THEN "" ELSE "Factory can only transfer to Retailer"
  ELSE IF senderRole = RETAILER_ROLE THEN
    IF recipientRole = CONSUMER_ROLE THEN "" ELSE "Retailer can only transfer to Consumer"
  ELSE IF senderRole = CONSUMER_ROLE THEN "Consumer cannot transfer"
  ELSE ""

\* the explicit conversion uint96(x) of a uint256: the low 96 bits
uint96(x) == x % (MaxUint96 + 1)

\* (mutant) the amount is not compared with the largest uint96
transferChecksNoBound(s, sender, to, tokenId, amount) ==
  LET senderUserId == s.addressToUserId[sender]
      recipientUserId == s.addressToUserId[to]
  IN
  IF senderUserId = 0 THEN "Sender not registered"
  ELSE IF s.users[senderUserId].status # "Approved" THEN "Sender not approved"
  ELSE IF ~(tokenId > 0 /\ tokenId < s.nextTokenId) THEN "Token does not exist"
  ELSE IF ~(amount > 0) THEN "Amount must be greater than 0"
  ELSE IF ~(s.tokens[tokenId].balance[sender] >= amount) THEN "Insufficient balance"
  ELSE IF ~(to # sender) THEN "Cannot transfer to yourself"
  ELSE IF recipientUserId = 0 THEN "Recipient not registered"
  ELSE IF s.users[recipientUserId].status # "Approved" THEN "Recipient not approved"
  ELSE roleFlow(s.users[senderUserId].role, s.users[recipientUserId].role)

\* (mutant) the status of the recipient is not checked
transferChecksAnyRecipient(s, sender, to, tokenId, amount) ==
  LET senderUserId == s.addressToUserId[sender]
      recipientUserId == s.addressToUserId[to]
  IN
  IF senderUserId = 0 THEN "Sender not registered"
  ELSE IF s.users[senderUserId].status # "Approved" THEN "Sender not approved"
  ELSE IF ~(tokenId > 0 /\ tokenId < s.nextTokenId) THEN "Token does not exist"
  ELSE IF ~(amount > 0) THEN "Amount must be greater than 0"
  ELSE IF ~(amount <= MaxUint96) THEN "Amount too large"
  ELSE IF ~(s.tokens[tokenId].balance[sender] >= amount) THEN "Insufficient balance"
  ELSE IF ~(to # sender) THEN "Cannot transfer to yourself"
  ELSE IF recipientUserId = 0 THEN "Recipient not registered"
  ELSE roleFlow(s.users[senderUserId].role, s.users[recipientUserId].role)

\* transfer, the checks: the revert reason, "" when all of them pass
transferChecks(s, sender, to, tokenId, amount) ==
  LET senderUserId == s.addressToUserId[sender]
      recipientUserId == s.addressToUserId[to]
  IN
  IF senderUserId = 0 THEN "Sender not registered"
  ELSE IF s.users[senderUserId].status # "Approved" THEN "Sender not approved"
  ELSE IF ~(tokenId > 0 /\ tokenId < s.nextTokenId) THEN "Token does not exist"
  ELSE IF ~(amount > 0) THEN "Amount must be greater than 0"
  ELSE IF ~(amount <= MaxUint96) THEN "Amount too large"
  ELSE IF ~(s.tokens[tokenId].balance[sender] >= amount) THEN "Insufficient balance"
  ELSE IF ~(to # sender) THEN "Cannot transfer to yourself"
  ELSE IF recipientUserId = 0 THEN "Recipient not registered"
  ELSE IF s.users[recipientUserId].status # "Approved" THEN "Recipient not approved"
  ELSE roleFlow(s.users[senderUserId].role, s.users[recipientUserId].role)

\* (mutant) the request is not added to the history of its recipient
transferRecordSenderOnly(s, sender, to, tokenId, amount) ==
  LET newTransfer ==
        [id |-> s.nextTransferId, from |-> sender, to |-> to, tokenId |-> tokenId,
         dateCreated |-> BlockTimestamp, amount |-> uint96(amount),
         status |-> "Pending"]
      s1 == [s EXCEPT !.transfers[s.nextTransferId] = newTransfer]
      s2 == [s1 EXCEPT !.userTransferIds[sender] = Append(@, s.nextTransferId)]
      ev == <<[event |-> "TransferRequested", transferId |-> s.nextTransferId,
               from |-> sender, to |-> to, tokenId |-> tokenId, amount |-> amount]>>
  IN Ok([s2 EXCEPT !.nextTransferId = s.nextTransferId + 1], ev)

\* (mutant) the request is recorded and the units move at once
transferRecordMoves(s, sender, to, tokenId, amount) ==
  LET newTransfer ==
        [id |-> s.nextTransferId, from |-> sender, to |-> to, tokenId |-> tokenId,
         dateCreated |-> BlockTimestamp, amount |-> uint96(amount),
         status |-> "Pending"]
      s1 == [s EXCEPT !.transfers[s.nextTransferId] = newTransfer,
                      !.userTransferIds[sender] = Append(@, s.nextTransferId),
                      !.tokens[tokenId].balance[sender] = @ - amount]
      s2 == [s1 EXCEPT !.userTransferIds[to] = Append(@, s.nextTransferId),
                       !.tokens[tokenId].balance[to] = @ + amount]
      ev == <<[event |-> "TransferRequested", transferId |-> s.nextTransferId,
               from |-> sender, to |-> to, tokenId |-> tokenId, amount |-> amount]>>
  IN Ok([s2 EXCEPT !.nextTransferId = s.nextTransferId + 1], ev)

\* transfer, the writes: the Pending record, both history lists, the event
\* and the counter
transferRecord(s, sender, to, tokenId, amount) ==
  LET newTransfer ==
        [id |-> s.nextTransferId, from |-> sender, to |-> to, tokenId |-> tokenId,
         dateCreated |-> BlockTimestamp, amount |-> uint96(amount),
         status |-> "Pending"]
      s1 == [s EXCEPT !.transfers[s.nextTransferId] = newTransfer]
      s2 == [s1 EXCEPT !.userTransferIds[sender] = Append(@, s.nextTransferId)]
      s3 == [s2 EXCEPT !.userTransferIds[to] = Append(@, s.nextTransferId)]
      ev == <<[event |-> "TransferRequested", transferId |-> s.nextTransferId,
               from |-> sender, to |-> to, tokenId |-> tokenId, amount |-> amount]>>
  IN Ok([s3 EXCEPT !.nextTransferId = s.nextTransferId + 1], ev)

transfer(s, sender, to, tokenId, amount) ==
  LET reason == transferChecks(s, sender, to, tokenId, amount) IN
  IF reason # "" THEN Revert(s, reason)
  ELSE transferRecord(s, sender, to, tokenId, amount)

\* (mutant) the status of the request is not checked
acceptChecksNoPending(s, sender, transferId) ==
  IF ~(transferId > 0 /\ transferId < s.nextTransferId) THEN "Transfer does not exist"
  ELSE IF sender # s.transfers[transferId].to THEN "Only recipient can accept transfer"
  ELSE ""

\* (mutant) the caller is not checked
acceptChecksAnyone(s, sender, transferId) ==
  IF ~(transferId > 0 /\ transferId < s.nextTransferId) THEN "Transfer does not exist"
  ELSE IF s.transfers[transferId].status # "Pending" THEN "Transfer is not pending"
  ELSE ""

\* (mutant) the recipient must be an Approved user to accept
acceptChecksApprovedOnly(s, sender, transferId) ==
  IF ~(transferId > 0 /\ transferId < s.nextTransferId) THEN "Transfer does not exist"
  ELSE IF sender # s.transfers[transferId].to THEN "Only recipient can accept transfer"
  ELSE IF s.transfers[transferId].status # "Pending" THEN "Transfer is not pending"
  ELSE IF s.users[s.addressToUserId[sender]].status # "Approved" THEN "User not approved"
  ELSE ""

\* acceptTransfer, the checks
acceptChecks(s, sender, transferId) ==
  IF ~(transferId > 0 /\ transferId < s.nextTransferId) THEN "Transfer does not exist"
  ELSE IF sender # s.transfers[transferId].to THEN "Only recipient can accept transfer"
  ELSE IF s.transfers[transferId].status # "Pending" THEN "Transfer is not pending"
  ELSE ""

\* (mutant) the debit is not checked: it moves what the sender has
moveFundsWhatIsLeft(s, tokenId, from, to, amount) ==
  LET moved == IF s.tokens[tokenId].balance[from] < amount
               THEN s.tokens[tokenId].balance[from] ELSE amount
      s1 == [s EXCEPT !.tokens[tokenId].balance[from] = @ - moved]
  IN Ok([s1 EXCEPT !.tokens[tokenId].balance[to] = @ + moved], <<>>)

\* (mutant) the recipient of the units becomes the creator of the class
moveFundsNewCreator(s, tokenId, from, to, amount) ==
  IF s.tokens[tokenId].balance[from] < amount THEN Revert(s, Panic)
  ELSE
    LET s1 == [s EXCEPT !.tokens[tokenId].balance[from] = @ - amount] IN
    Ok([s1 EXCEPT !.tokens[tokenId].balance[to] = @ + amount,
                  !.tokens[tokenId].creator = to], <<>>)

\* (mutant) the recipient is credited and the sender is not debited
moveFundsNoDebit(s, tokenId, from, to, amount) ==
  IF s.tokens[tokenId].balance[from] < amount THEN Revert(s, Panic)
  ELSE Ok([s EXCEPT !.tokens[tokenId].balance[to] = @ + amount], <<>>)

\* balance[from] -= amount; balance[to] += amount, in checked uint256
\* arithmetic: the subtraction panics when it would go below zero
moveFunds(s, tokenId, from, to, amount) ==
  IF s.tokens[tokenId].balance[from] < amount THEN Revert(s, Panic)
  ELSE
    LET s1 == [s EXCEPT !.tokens[tokenId].balance[from] = @ - amount] IN
    Ok([s1 EXCEPT !.tokens[tokenId].balance[to] = @ + amount], <<>>)

\* (mutant) an accepted request emits no event
acceptEffectSilent(s, transferId) ==
  LET txfer == s.transfers[transferId]
      tokenId == txfer.tokenId
      s1 == IF s.tokens[tokenId].balance[txfer.to] = 0
            THEN [s EXCEPT !.userTokenIds[txfer.to] = Append(@, tokenId)]
            ELSE s
      moved == moveFunds(s1, tokenId, txfer.from, txfer.to, txfer.amount)
  IN
  IF moved.err # "" THEN moved
  ELSE
    LET s3 == moved.s
        s4 == IF s3.tokens[tokenId].balance[txfer.from] = 0
              THEN [s3 EXCEPT !.userTokenIds[txfer.from] = removeTokenId(@, tokenId)]
              ELSE s3
        s5 == [s4 EXCEPT !.transfers[transferId].status = "Accepted"]
    IN Ok(s5, <<>>)

\* acceptTransfer, the writes
acceptEffect(s, transferId) ==
  LET txfer == s.transfers[transferId]
      tokenId == txfer.tokenId
      \* if recipient had 0, the token id joins its list
      s1 == IF s.tokens[tokenId].balance[txfer.to] = 0
            THEN [s EXCEPT !.userTokenIds[txfer.to] = Append(@, tokenId)]
            ELSE s
      moved == moveFunds(s1, tokenId, txfer.from, txfer.to, txfer.amount)
  IN
  IF moved.err # "" THEN moved
  ELSE
    LET s3 == moved.s
        \* if sender has 0 left, the token id leaves its list
        s4 == IF s3.tokens[tokenId].balance[txfer.from] = 0
              THEN [s3 EXCEPT !.userTokenIds[txfer.from] = removeTokenId(@, tokenId)]
              ELSE s3
        s5 == [s4 EXCEPT !.transfers[transferId].status = "Accepted"]
    IN Ok(s5, <<[event |-> "TransferAccepted", transferId |-> transferId]>>)

acceptTransfer(s, sender, transferId) ==
  LET reason == acceptChecks(s, sender, transferId) IN
  IF reason # "" THEN Revert(s, reason)
  ELSE acceptEffect(s, transferId)

\* (mutant) the status of the request is not checked
rejectChecksNoPending(s, sender, transferId) ==
  IF ~(transferId > 0 /\ transferId < s.nextTransferId) THEN "Transfer does not exist"
  ELSE IF sender # s.transfers[transferId].to THEN "Only recipient can reject transfer"
  ELSE ""

\* (mutant) the recipient must be an Approved user to reject
rejectChecksApprovedOnly(s, sender, transferId) ==
  IF ~(transferId > 0 /\ transferId < s.nextTransferId) THEN "Transfer does not exist"
  ELSE IF sender # s.transfers[transferId].to THEN "Only recipient can reject transfer"
  ELSE IF s.transfers[transferId].status # "Pending" THEN "Transfer is not pending"
  ELSE IF s.users[s.addressToUserId[sender]].status # "Approved" THEN "User not approved"
  ELSE ""

\* rejectTransfer, the checks
rejectChecks(s, sender, transferId) ==
  IF ~(transferId > 0 /\ transferId < s.nextTransferId) THEN "Transfer does not exist"
  ELSE IF sender # s.transfers[transferId].to THEN "Only recipient can reject transfer"
  ELSE IF s.transfers[transferId].status # "Pending" THEN "Transfer is not pending"
  ELSE ""

\* (mutant) a rejected request also leaves the history of its recipient
rejectTransferForgets(s, sender, transferId) ==
  LET reason == rejectChecks(s, sender, transferId) IN
  IF reason # "" THEN Revert(s, reason)
  ELSE Ok([s EXCEPT !.transfers[transferId].status = "Rejected",
                    !.userTransferIds[sender] = removeTokenId(@, transferId)],
          <<[event |-> "TransferRejected", transferId |-> transferId]>>)

rejectTransfer(s, sender, transferId) ==
  LET reason == rejectChecks(s, sender, transferId) IN
  IF reason # "" THEN Revert(s, reason)
  ELSE Ok([s EXCEPT !.transfers[transferId].status = "Rejected"],
          <<[event |-> "TransferRejected", transferId |-> transferId]>>)

getTransfer(s, transferId) ==
  IF ~(transferId > 0 /\ transferId < s.nextTransferId)
  THEN [err |-> "Transfer does not exist", value |-> ZeroTransfer]
  ELSE [err |-> "", value |-> s.transfers[transferId]]

getUserTransfers(s, userAddress) == s.userTransferIds[userAddress]

\* ------------------------------------------------------------ transactions
\* The receipt kept: that of the latest call that returned normally.  A
\* reverted call changes neither the storage nor the event log.
Logged(op, r) == IF r.err = "" THEN [op |-> op, events |-> r.events] ELSE last

\* One transaction: the storage and the receipt it leaves behind
Exec(op, r) ==
  LET post == Commit(Storage, r) IN
  /\ admin' = post.admin
  /\ nextTokenId' = post.nextTokenId
  /\ nextTransferId' = post.nextTransferId
  /\ nextUserId' = post.nextUserId
  /\ tokens' = post.tokens
  /\ transfers' = post.transfers
  /\ users' = post.users
  /\ addressToUserId' = post.addressToUserId
  /\ userTokenIds' = post.userTokenIds
  /\ userTransferIds' = post.userTransferIds
  /\ last' = Logged(op, r)

Init ==
  /\ admin = Admin
  /\ nextTokenId = 1
  /\ nextTransferId = 1
  /\ nextUserId = 1
  /\ tokens = [i \in TokenIds |-> ZeroToken]
  /\ transfers = [i \in TransferIds |-> ZeroTransfer]
  /\ users = [i \in UserIds |-> ZeroUser]
  /\ addressToUserId = [a \in Addr |-> 0]
  /\ userTokenIds = [a \in Addr |-> <<>>]
  /\ userTransferIds = [a \in Addr |-> <<>>]
  /\ last = [op |-> "constructor", events |-> <<>>]

\* An environment is the set of calls it may make, per function
\* ---- a two-stage market: a producer p1, a factory p2, the admin and
\*      outsiders (p3, p4)
MarketRegisterCalls ==
  {<<"p1", PRODUCER_ROLE>>, <<"p2", FACTORY_ROLE>>, <<"p2", "Admin">>}
MarketStatusCalls ==
  ({Admin} \X {"p1", "p2", "p3"} \X {"Approved", "Canceled"})
  \cup ({Admin} \X {"p1"} \X UserStatus)
  \cup {<<"p1", "p2", "Approved">>}
MarketCreateCalls ==
  ({"p1", "p2", "p3"} \X {<<"T", MaxSupply>>, <<"", 1>>, <<"T", 0>>} \X {0})
  \cup ({"p1", "p2"} \X {<<"T", MaxSupply>>} \X (1..MaxTokens))
MarketTransferCalls ==
  ({"p1", "p2"} \X {"p1", "p2", "p3"} \X (1..MaxTokens) \X (1..MaxSupply))
  \cup ({"p1", "p3"} \X {"p2"} \X {0, MaxTokens + 1} \X {0, 1})
MarketSettleCalls == {Admin, "p1", "p2"} \X (0..(MaxTransfers + 1))

\* ---- the whole chain: members arrive in the order p1, p2, p3, p4, admin;
\*      p1..p4 ask for the four roles of the chain in order and the admin's
\*      own account asks for any role; the admin approves; one class of
\*      MaxUint96 + 1 units is minted and requests move one unit
Arrival == <<"p1", "p2", "p3", "p4", Admin>>
Wish(a) ==
  CASE a = "p1" -> {PRODUCER_ROLE}
    [] a = "p2" -> {FACTORY_ROLE}
    [] a = "p3" -> {RETAILER_ROLE}
    [] a = "p4" -> {CONSUMER_ROLE}
    [] OTHER    -> Roles \cup {"Admin"}
ChainRegisterCalls ==
  {c \in Addr \X (Roles \cup {"Admin"}) :
     /\ c[2] \in Wish(c[1])
     /\ \A i \in 1..Len(Arrival) :
          Arrival[i] = c[1] => \A j \in 1..(i - 1) : addressToUserId[Arrival[j]] # 0}
ChainStatusCalls ==
  ({Admin} \X Addr \X {"Approved"}) \cup {<<"p1", "p1", "Approved">>}
ChainCreateCalls == Addr \X {<<"T", MaxUint96 + 1>>} \X {0, 1}
ChainTransferCalls ==
  (Addr \X Addr \X (1..MaxTokens) \X {1})
  \cup ({"p1", "p4"} \X {"p2"} \X {0, 1, MaxTokens + 1} \X {0, 1, MaxUint96 + 1})
ChainSettleCalls == Addr \X (0..(MaxTransfers + 1))

RequestUserRole(calls) ==
  \E c \in calls :
    Exec("requestUserRole", requestUserRole(Storage, c[1], c[2]))

ChangeStatusUser(calls) ==
  \E c \in calls :
    Exec("changeStatusUser", changeStatusUser(Storage, c[1], c[2], c[3]))

\* the model stops minting at `cap` classes
CreateTokenUpTo(calls, cap) ==
  \E c \in calls :
    LET r == createToken(Storage, c[1], c[2][1], c[2][2], "{}", c[3]) IN
    /\ r.err = "" => nextTokenId <= cap
    /\ Exec("createToken", r)

CreateToken(calls) == CreateTokenUpTo(calls, MaxTokens)

\* the model stops creating requests at MaxTransfers requests
Transfer(calls) ==
  \E c \in calls :
    LET r == transfer(Storage, c[1], c[2], c[3], c[4]) IN
    /\ r.err = "" => nextTransferId <= MaxTransfers
    /\ Exec("transfer", r)

AcceptTransfer(calls) ==
  \E c \in calls :
    Exec("acceptTransfer", acceptTransfer(Storage, c[1], c[2]))

RejectTransfer(calls) ==
  \E c \in calls :
    Exec("rejectTransfer", rejectTransfer(Storage, c[1], c[2]))

Next ==
  \/ RequestUserRole(MarketRegisterCalls)
  \/ ChangeStatusUser(MarketStatusCalls)
  \/ CreateToken(MarketCreateCalls)
  \/ Transfer(MarketTransferCalls)
  \/ AcceptTransfer(MarketSettleCalls)
  \/ RejectTransfer(MarketSettleCalls)

Spec == Init /\ [][Next]_vars

NextChain ==
  \/ RequestUserRole(ChainRegisterCalls)
  \/ ChangeStatusUser(ChainStatusCalls)
  \/ CreateToken(ChainCreateCalls)
  \/ Transfer(ChainTransferCalls)
  \/ AcceptTransfer(ChainSettleCalls)
  \/ RejectTransfer(ChainSettleCalls)

SpecChain == Init /\ [][NextChain]_vars

\* ---- the ledger: p1..p4 arrive in order with the four roles of the chain,
\*      each one once the admin has approved those before it; once the
\*      chain is complete up to MaxClasses classes of two units are minted,
\*      by anyone and from any parent; requests move one unit down the
\*      chain
LedgerRegisterCalls ==
  {c \in ChainRegisterCalls :
     /\ c[1] # Admin
     /\ \A a \in Users :
          addressToUserId[a] # 0 => users[addressToUserId[a]].status = "Approved"}
LedgerStatusCalls   ==
  {c \in {Admin} \X Users \X {"Approved"} :
     addressToUserId[c[2]] # 0 => users[addressToUserId[c[2]]].status = "Pending"}
LedgerCreateCalls   ==
  {c \in Users \X {<<"T", 2>>} \X (0..MaxClasses) :
     \A a \in Users :
       addressToUserId[a] # 0 /\ users[addressToUserId[a]].status = "Approved"}
LedgerTransferCalls ==
  {<<"p1", "p2">>, <<"p2", "p3">>, <<"p3", "p4">>, <<"p2", "p1">>}
    \X (1..MaxClasses) \X {1}
LedgerSettleCalls   == Users \X (1..MaxTransfers)

NextLedger ==
  \/ RequestUserRole(LedgerRegisterCalls)
  \/ ChangeStatusUser(LedgerStatusCalls)
  \/ CreateTokenUpTo(LedgerCreateCalls, MaxClasses)
  \/ Transfer({<<c[1][1], c[1][2], c[2], c[3]>> : c \in LedgerTransferCalls})
  \/ AcceptTransfer(LedgerSettleCalls)
  \/ RejectTransfer(LedgerSettleCalls)

SpecLedger == Init /\ [][NextLedger]_vars

\* ======================================================================
\* Properties
\* ======================================================================
RECURSIVE SumOver(_, _)
SumOver(f, S) ==
  IF S = {} THEN 0
  ELSE LET x == CHOOSE y \in S : TRUE IN f[x] + SumOver(f, S \ {x})

Minted      == {id \in TokenIds : id < nextTokenId}
Requested   == {t \in TransferIds : t < nextTransferId}

\* The calls a property ranges over: every caller, every argument in range
\* and one past it
AllRegisterCalls == Addr \X (Roles \cup {"Admin"})
AllStatusCalls   == Addr \X Addr \X UserStatus
AllCreateCalls   ==
  Addr \X {<<"T", MaxSupply>>, <<"", 1>>, <<"T", 0>>} \X (0..(MaxClasses + 1))
AllTransferCalls == Addr \X Addr \X (0..nextTokenId) \X (0..MaxSupply)
AllSettleCalls   == Addr \X (0..(MaxTransfers + 1))

\* The error kinds of the specification, as the contract's revert reasons
NotPending          == "Transfer is not pending"
UnauthorizedAccept  == "Only recipient can accept transfer"
UnauthorizedReject  == "Only recipient can reject transfer"
InvalidRoleFlow ==
  {"Producer can only transfer to Factory", "Factory can only transfer to Retailer",
   "Retailer can only transfer to Consumer", "Consumer cannot transfer"}

\* ---------------------------------------------------------------- C1
\* C1: balance conservation.  In every reachable state the balances of every
\* minted token class add up to its totalSupply, and no balance is negative.
C1_BalanceConservation ==
  \A id \in TokenIds :
    /\ \A a \in Addr : tokens[id].balance[a] >= 0
    /\ id \in Minted => SumOver(tokens[id].balance, Addr) = tokens[id].totalSupply
    /\ id \notin Minted => SumOver(tokens[id].balance, Addr) = 0

\* an accepted request has split a class between its sender and its recipient,
\* and another request was rejected
C1_Witness ==
  \E t \in Requested, u \in Requested :
    /\ transfers[t].status = "Accepted"
    /\ transfers[u].status = "Rejected"
    /\ tokens[transfers[t].tokenId].balance[transfers[t].from] > 0
    /\ tokens[transfers[t].tokenId].balance[transfers[t].to] > 0

\* ---------------------------------------------------------------- C2
\* C2 (as claimed): accept has exactly three preconditions.  Whenever the
\* request exists, is Pending and the caller is its `to`, acceptTransfer
\* returns normally, and it debits `from` by amount, credits `to` by amount
\* and sets the status to Accepted.
C2_AcceptThreePreconditions ==
  \A c \in AllSettleCalls :
    LET caller == c[1]
        t == c[2]
    IN (t \in Requested /\ transfers[t].status = "Pending" /\ caller = transfers[t].to)
       => LET x == transfers[t]
              r == acceptTransfer(Storage, caller, t)
              post == Commit(Storage, r)
          IN /\ r.err = ""
             /\ post.tokens[x.tokenId].balance[x.from]
                  = tokens[x.tokenId].balance[x.from] - x.amount
             /\ post.tokens[x.tokenId].balance[x.to]
                  = tokens[x.tokenId].balance[x.to] + x.amount
             /\ post.transfers[t].status = "Accepted"

\* ---------------------------------------------------------------- C3
\* C3: no premature movement.  A successful transfer (initiate) leaves every
\* token class, balance and owned-token list as it was; it creates one
\* Pending request under the next id and appends that id to the history
\* lists of its two parties only.  The balances of a minted class change
\* only in a step that is a successful acceptTransfer.
C3_NoPrematureMovement ==
  [][ /\ (last'.op = "transfer")
         => LET t == nextTransferId IN
            /\ tokens' = tokens
            /\ userTokenIds' = userTokenIds
            /\ nextTransferId' = t + 1
            /\ transfers'[t].status = "Pending"
            /\ transfers'[t].id = t
            /\ \A u \in TransferIds \ {t} : transfers'[u] = transfers[u]
            /\ \A a \in Addr :
                 userTransferIds'[a] =
                   IF a \in {transfers'[t].from, transfers'[t].to}
                   THEN Append(userTransferIds[a], t)
                   ELSE userTransferIds[a]
            /\ UNCHANGED <<admin, nextTokenId, nextUserId, users, addressToUserId>>
      /\ \A id \in Minted :
           tokens'[id].balance # tokens[id].balance => last'.op = "acceptTransfer"
    ]_vars

\* a request has just been created and its sender still holds the whole supply
C3_Witness ==
  /\ last.op = "transfer"
  /\ \E t \in Requested :
       /\ t + 1 = nextTransferId
       /\ transfers[t].status = "Pending"
       /\ tokens[transfers[t].tokenId].balance[transfers[t].from]
            = tokens[transfers[t].tokenId].totalSupply
       /\ tokens[transfers[t].tokenId].balance[transfers[t].to] = 0

\* ---------------------------------------------------------------- C4
\* C4: a request's status changes only from Pending to Accepted or from
\* Pending to Rejected; its id, from, to, tokenId, amount and date never
\* change; and a request, once created, stays.
C4_StatusProgression ==
  [][ /\ nextTransferId' >= nextTransferId
      /\ \A t \in Requested :
           /\ transfers'[t].id = transfers[t].id
           /\ transfers'[t].from = transfers[t].from
           /\ transfers'[t].to = transfers[t].to
           /\ transfers'[t].tokenId = transfers[t].tokenId
           /\ transfers'[t].amount = transfers[t].amount
           /\ transfers'[t].dateCreated = transfers[t].dateCreated
           /\ transfers'[t].status # transfers[t].status
                => /\ transfers[t].status = "Pending"
                   /\ transfers'[t].status \in {"Accepted", "Rejected"}
    ]_vars

\* one request was accepted and another rejected, and a later request exists
C4_Witness ==
  \E t \in Requested, u \in Requested, v \in Requested :
    /\ transfers[t].status = "Accepted"
    /\ transfers[u].status = "Rejected"
    /\ v > t /\ v > u

\* ---------------------------------------------------------------- C5
\* C5 (as claimed): once a request is Accepted or Rejected, acceptTransfer
\* and rejectTransfer naming it fail with "Transfer is not pending" whoever
\* the caller is, and change nothing.
C5_TerminalAlwaysNotPending ==
  \A c \in AllSettleCalls :
    LET caller == c[1]
        t == c[2]
    IN (t \in Requested /\ transfers[t].status \in {"Accepted", "Rejected"})
       => LET ra == acceptTransfer(Storage, caller, t)
              rr == rejectTransfer(Storage, caller, t)
          IN /\ ra.err = NotPending /\ Commit(Storage, ra) = Storage
             /\ rr.err = NotPending /\ Commit(Storage, rr) = Storage

\* C5 (amended): once a request is Accepted or Rejected, acceptTransfer and
\* rejectTransfer naming it fail and change nothing: with "Transfer is not
\* pending" when the caller is the request's recipient, with "Only recipient
\* can accept/reject transfer" for every other caller.
C5_TerminalStaysTerminal ==
  \A c \in AllSettleCalls :
    LET caller == c[1]
        t == c[2]
    IN (t \in Requested /\ transfers[t].status \in {"Accepted", "Rejected"})
       => LET ra == acceptTransfer(Storage, caller, t)
              rr == rejectTransfer(Storage, caller, t)
          IN /\ Commit(Storage, ra) = Storage
             /\ Commit(Storage, rr) = Storage
             /\ Logged("acceptTransfer", ra) = last
             /\ Logged("rejectTransfer", rr) = last
             /\ caller = transfers[t].to => ra.err = NotPending /\ rr.err = NotPending
             /\ caller # transfers[t].to
                  => ra.err = UnauthorizedAccept /\ rr.err = UnauthorizedReject

\* an Accepted and a Rejected request exist, whose recipient is registered
\* and whose sender is another account
C5_Witness ==
  \E t \in Requested, u \in Requested :
    /\ transfers[t].status = "Accepted"
    /\ transfers[u].status = "Rejected"
    /\ acceptTransfer(Storage, transfers[t].to, t).err = NotPending
    /\ rejectTransfer(Storage, transfers[u].to, u).err = NotPending
    /\ acceptTransfer(Storage, transfers[u].from, u).err # ""

\* ---------------------------------------------------------------- C9
\* C9: only the recipient settles.  For every existing request, whatever its
\* status, acceptTransfer and rejectTransfer by any caller other than its
\* `to` (its sender and the admin included) fail with "Only recipient can
\* accept/reject transfer" and change nothing; and no call of any function
\* by an account other than `to` changes the record of a Pending request.
C9_OnlyRecipientSettles ==
  \A t \in Requested :
    LET to == transfers[t].to
        Kept(r) == Commit(Storage, r).transfers[t] = transfers[t]
    IN
    /\ \A caller \in Addr \ {to} :
         LET ra == acceptTransfer(Storage, caller, t)
             rr == rejectTransfer(Storage, caller, t)
         IN /\ ra.err = UnauthorizedAccept /\ Commit(Storage, ra) = Storage
            /\ rr.err = UnauthorizedReject /\ Commit(Storage, rr) = Storage
    /\ transfers[t].status = "Pending" =>
         /\ \A c \in AllRegisterCalls :
              c[1] # to => Kept(requestUserRole(Storage, c[1], c[2]))
         /\ \A c \in AllStatusCalls :
              c[1] # to => Kept(changeStatusUser(Storage, c[1], c[2], c[3]))
         /\ \A c \in AllCreateCalls :
              c[1] # to => Kept(createToken(Storage, c[1], c[2][1], c[2][2], "{}", c[3]))
         /\ \A c \in AllTransferCalls :
              c[1] # to => Kept(transfer(Storage, c[1], c[2], c[3], c[4]))
         /\ \A c \in AllSettleCalls :
              c[1] # to => /\ Kept(acceptTransfer(Storage, c[1], c[2]))
                           /\ Kept(rejectTransfer(Storage, c[1], c[2]))

\* a Pending request whose sender and the admin are both refused, next to a
\* request its recipient has settled
C9_Witness ==
  \E t \in Requested, u \in Requested :
    /\ transfers[t].status = "Pending"
    /\ transfers[u].status = "Accepted"
    /\ transfers[t].from # admin
    /\ rejectTransfer(Storage, transfers[t].from, t).err = UnauthorizedReject
    /\ acceptTransfer(Storage, admin, t).err = UnauthorizedAccept

\* ---------------------------------------------------------------- C6
\* C6: full rollback.  In every reachable state, every call of
\* requestUserRole, changeStatusUser, createToken, transfer, acceptTransfer
\* or rejectTransfer that fails leaves the whole storage (users, tokens and
\* balances, owned-token lists, requests, history lists, counters) and the
\* event log as they were; a failed acceptTransfer in particular leaves both
\* balances, the recipient's owned-token list and the request's status.
RolledBack(op, r) ==
  r.err # "" => /\ Commit(Storage, r) = Storage
                /\ Logged(op, r) = last

RoleOf(a) == users[addressToUserId[a]].role
IsApproved(a) ==
  addressToUserId[a] # 0 /\ users[addressToUserId[a]].status = "Approved"
AllowedFlow ==
  {<<PRODUCER_ROLE, FACTORY_ROLE>>, <<FACTORY_ROLE, RETAILER_ROLE>>,
   <<RETAILER_ROLE, CONSUMER_ROLE>>}
\* the preconditions of transfer the specification lists, the role rule apart
OtherPreconditions(c) ==
  /\ c[1] # c[2]
  /\ IsApproved(c[1]) /\ IsApproved(c[2])
  /\ c[3] \in Minted
  /\ c[4] > 0
  /\ tokens[c[3]].balance[c[1]] >= c[4]
\* what the role rule decides for a call
RoleRuleDecides(c) ==
  LET r == transfer(Storage, c[1], c[2], c[3], c[4])
      post == Commit(Storage, r)
  IN IF <<RoleOf(c[1]), RoleOf(c[2])>> \in AllowedFlow
     THEN /\ r.err = ""
          /\ post.nextTransferId = nextTransferId + 1
          /\ post.transfers[nextTransferId].status = "Pending"
     ELSE /\ r.err \in InvalidRoleFlow
          /\ post = Storage

\* C7 (as claimed): with distinct Approved parties, an existing token,
\* amount > 0 and a sufficient balance, transfer succeeds iff the pair of
\* roles is Producer-Factory, Factory-Retailer or Retailer-Consumer; any
\* other pair fails with a role-flow reason and creates no request.
C7_RoleFlowDecides ==
  \A c \in AllTransferCalls : OtherPreconditions(c) => RoleRuleDecides(c)

\* C7 (amended): the same, for amounts of at most 2^96 - 1.
C7_RoleFlowDecidesUpToUint96 ==
  \A c \in AllTransferCalls :
    (OtherPreconditions(c) /\ c[4] <= MaxUint96) => RoleRuleDecides(c)

\* all five accounts are Approved, the class has travelled down the chain
\* to the Consumer, and a Producer and a Consumer hold units: an allowed
\* pair and denied pairs with every other precondition satisfied
C7_Witness ==
  /\ \A a \in Addr : IsApproved(a)
  /\ \E id \in Minted :
       /\ \E a \in Addr : RoleOf(a) = PRODUCER_ROLE /\ tokens[id].balance[a] > 0
       /\ \E a \in Addr : RoleOf(a) = CONSUMER_ROLE /\ tokens[id].balance[a] > 0
       /\ \E c \in AllTransferCalls :
            /\ OtherPreconditions(c) /\ c[4] <= MaxUint96
            /\ transfer(Storage, c[1], c[2], c[3], c[4]).err = ""
       /\ \E c \in AllTransferCalls :
            /\ OtherPreconditions(c) /\ c[4] <= MaxUint96
            /\ transfer(Storage, c[1], c[2], c[3], c[4]).err
                 = "Producer can only transfer to Factory"

\* ---------------------------------------------------------------- C8
IsConsumer(a) == addressToUserId[a] # 0 /\ RoleOf(a) = CONSUMER_ROLE

\* C8 (as claimed): a transfer whose sender is a Consumer fails with the
\* role-flow reason "Consumer cannot transfer" whatever the recipient, the
\* token and the amount, and creates no request.
C8_ConsumerAlwaysRoleFlow ==
  \A c \in AllTransferCalls :
    IsConsumer(c[1]) =>
      LET r == transfer(Storage, c[1], c[2], c[3], c[4]) IN
      /\ r.err \in InvalidRoleFlow
      /\ Commit(Storage, r) = Storage

\* C8 (amended): a transfer whose sender is a Consumer always fails and
\* creates no request.  The reason is "Consumer cannot transfer" exactly
\* when every earlier check passes (sender Approved, token exists,
\* 0 < amount <= 2^96 - 1, balance >= amount, recipient another registered
\* and Approved account); otherwise it is the reason of the first earlier
\* check that fails, which is not a role-flow reason.
C8_ConsumerNeverSends ==
  \A c \in AllTransferCalls :
    IsConsumer(c[1]) =>
      LET r == transfer(Storage, c[1], c[2], c[3], c[4]) IN
      /\ r.err # ""
      /\ Commit(Storage, r) = Storage
      /\ Logged("transfer", r) = last
      /\ IF OtherPreconditions(c) /\ c[4] <= MaxUint96
         THEN r.err = "Consumer cannot transfer"
         ELSE r.err \notin InvalidRoleFlow

\* an Approved Consumer holds units and is refused as a sender, towards an
\* Approved account and towards itself
C8_Witness ==
  \E a \in Addr, b \in Addr, id \in Minted :
    /\ IsConsumer(a) /\ IsApproved(a) /\ IsApproved(b) /\ a # b
    /\ tokens[id].balance[a] > 0
    /\ transfer(Storage, a, b, id, 1).err = "Consumer cannot transfer"
    /\ transfer(Storage, a, a, id, 1).err = "Cannot transfer to yourself"

\* ---------------------------------------------------------------- C10
\* C10: transfer creates a request only when sender and recipient are
\* distinct, both are registered and Approved, the token exists, amount > 0
\* and the sender's balance is at least amount; a call for which one of
\* these fails reverts and creates no request.  A step that is a successful
\* transfer creates a request whose parties, token and amount met these
\* conditions before the step.
C10_CallGuarded ==
  \A c \in AllTransferCalls :
    LET r == transfer(Storage, c[1], c[2], c[3], c[4]) IN
    /\ r.err = "" => OtherPreconditions(c)
    /\ ~OtherPreconditions(c) =>
         /\ r.err # ""
         /\ Commit(Storage, r) = Storage

C10_TransferGuarded ==
  /\ []C10_CallGuarded
  /\ [][ nextTransferId' # nextTransferId =>
           LET x == transfers'[nextTransferId] IN
           /\ last'.op = "transfer"
           /\ OtherPreconditions(<<x.from, x.to, x.tokenId, x.amount>>)
       ]_vars

\* a request has just been created between two Approved accounts while
\* another account is registered and not yet Approved
C10_Witness ==
  /\ last.op = "transfer"
  /\ \E a \in Addr : addressToUserId[a] # 0 /\ ~IsApproved(a)
  /\ \E t \in Requested :
       /\ t + 1 = nextTransferId
       /\ IsApproved(transfers[t].from) /\ IsApproved(transfers[t].to)

\* ---------------------------------------------------------------- C11
\* C11: a successful rejectTransfer changes the status of the named request
\* from Pending to Rejected and nothing else: every token class and balance,
\* every owned-token list, every other request, every history list, every
\* user record and every counter is unchanged, and one TransferRejected
\* event is emitted.
C11_RejectFrame ==
  [][ last'.op = "rejectTransfer" =>
        /\ \E t \in Requested :
             /\ transfers[t].status = "Pending"
             /\ transfers' = [transfers EXCEPT ![t].status = "Rejected"]
             /\ last'.events = <<[event |-> "TransferRejected", transferId |-> t]>>
        /\ UNCHANGED <<admin, nextTokenId, nextTransferId, nextUserId, tokens,
                       users, addressToUserId, userTokenIds, userTransferIds>>
    ]_vars

\* a request has just been rejected, its sender still holds units, and
\* another request is still Pending
C11_Witness ==
  /\ last.op = "rejectTransfer"
  /\ \E t \in Requested, u \in Requested :
       /\ last.events[1].transferId = t
       /\ transfers[t].status = "Rejected"
       /\ tokens[transfers[t].tokenId].balance[transfers[t].from] > 0
       /\ transfers[u].status = "Pending"

\* ---------------------------------------------------------------- C12
\* how many times id occurs in a list
Occurrences(ids, id) == Cardinality({i \in 1..Len(ids) : ids[i] = id})

\* C12: owned-token list consistency.  In every reachable state and for every
\* account, getUserTokens lists exactly the minted classes of which the
\* account's balance is > 0, each of them once: no id stays after the balance
\* has gone to 0, none is listed twice after a refill.
C12_OwnedIndexConsistent ==
  \A a \in Addr :
    LET ids == getUserTokens(Storage, a) IN
    /\ \A i \in 1..Len(ids) : ids[i] \in Minted
    /\ \A id \in TokenIds :
         Occurrences(ids, id) =
           IF id \in Minted /\ getTokenBalance(Storage, id, a).value > 0 THEN 1 ELSE 0

\* an account gave away all its units of the first class it minted, so that
\* the last id of its list took the place of the first, and the account that
\* received them went down to 0 in between and was refilled
C12_Witness ==
  \E t1 \in Requested, t2 \in Requested, t3 \in Requested :
    LET a == transfers[t1].from
        b == transfers[t1].to
        id == transfers[t1].tokenId
    IN /\ t1 < t2 /\ t2 < t3
       /\ \A t \in {t1, t2, t3} :
            transfers[t].status = "Accepted" /\ transfers[t].tokenId = id
       /\ transfers[t3].from = a /\ transfers[t3].to = b
       /\ transfers[t2].from = b
       /\ tokens[id].balance[a] = 0
       /\ tokens[id].balance[b] > 0
       /\ Len(userTokenIds[a]) >= 2
       /\ userTokenIds[a][1] > userTokenIds[a][2]

\* ---------------------------------------------------------------- C13
IsRegistered(a) == addressToUserId[a] # 0
\* the lineage rule a createToken call breaks: the revert reason, "" if none
LineageFault(role, parentId) ==
  IF role = PRODUCER_ROLE /\ parentId # 0 THEN "Producers cannot have parent token"
  ELSE IF role = FACTORY_ROLE /\ parentId = 0 THEN "Factory must specify parent token"
  ELSE IF role = RETAILER_ROLE /\ parentId = 0 THEN "Retailer must specify parent token"
  ELSE IF role \in {FACTORY_ROLE, RETAILER_ROLE} /\ parentId \notin Minted
    THEN "Parent token does not exist"
  ELSE IF role = FACTORY_ROLE /\ tokens[parentId].tokenType # "RawMaterial"
    THEN "Factory input must be RawMaterial"
  ELSE IF role = RETAILER_ROLE /\ tokens[parentId].tokenType # "ProcessedProduct"
    THEN "Retailer input must be ProcessedProduct"
  ELSE IF role = CONSUMER_ROLE THEN "Consumer cannot create tokens"
  ELSE ""

C15_CallGuarded ==
  \A c \in AllCreateCalls :
    LET r == createToken(Storage, c[1], c[2][1], c[2][2], "{}", c[3]) IN
    /\ r.err = "" => IsApproved(c[1])
    /\ ~IsRegistered(c[1]) => r.err = "User not registered"
    /\ (IsRegistered(c[1]) /\ ~IsApproved(c[1])) => r.err = "User not approved"
    /\ ~IsApproved(c[1]) =>
         /\ Commit(Storage, r) = Storage
         /\ Logged("createToken", r) = last

\* C15: createToken by an account that is unregistered, or registered with
\* status Pending, Rejected or Canceled (also one that was Approved before),
\* reverts ("User not registered" / "User not approved") and creates no
\* class; every step that creates a class is a createToken whose creator
\* was Approved in the state before it.
C15_OnlyApprovedMint ==
  /\ []C15_CallGuarded
  /\ [][ nextTokenId' # nextTokenId =>
           /\ last'.op = "createToken"
           /\ nextTokenId' = nextTokenId + 1
           /\ IsApproved(tokens'[nextTokenId].creator)
       ]_vars

\* the creator of a class is no longer Approved, an account is Canceled, an
\* account is registered and not yet approved or was rejected, and an
\* account is unregistered: each is refused
C15_Witness ==
  \E a \in Addr, b \in Addr, c \in Addr, id \in Minted :
    /\ tokens[id].creator = a
    /\ IsRegistered(a) /\ users[addressToUserId[a]].status = "Rejected"
    /\ IsRegistered(b) /\ users[addressToUserId[b]].status = "Canceled"
    /\ ~IsRegistered(c)
    /\ createToken(Storage, a, "T", 1, "{}", 0).err = "User not approved"
    /\ createToken(Storage, b, "T", 1, "{}", 0).err = "User not approved"
    /\ createToken(Storage, c, "T", 1, "{}", 0).err = "User not registered"

\* ---------------------------------------------------------------- C16
\* the token type createToken derives from a role
KindOf(role) ==
  CASE role = PRODUCER_ROLE -> "RawMaterial"
    [] role = FACTORY_ROLE  -> "ProcessedProduct"
    [] role = RETAILER_ROLE -> "FinalProduct"
    [] OTHER                -> "none"

\* C16: a successful createToken allocates the next class id, gives the
\* creator totalSupply units of the new class and everybody else 0, sets the
\* kind from the creator's role, appends the new id to the creator's
\* owned-token list, emits one TokenCreated event and changes nothing else:
\* no existing class or balance, no other list, no request, no user.
C16_MintEffect ==
  [][ last'.op = "createToken" =>
        LET id == nextTokenId
            k == tokens'[id]
        IN /\ nextTokenId' = id + 1
           /\ k.id = id
           /\ k.totalSupply > 0
           /\ IsApproved(k.creator)
           /\ k.tokenType = KindOf(RoleOf(k.creator))
           /\ k.balance = [a \in Addr |-> IF a = k.creator THEN k.totalSupply ELSE 0]
           /\ \A j \in TokenIds \ {id} : tokens'[j] = tokens[j]
           /\ userTokenIds' =
                [userTokenIds EXCEPT ![k.creator] = Append(userTokenIds[k.creator], id)]
           /\ last'.events =
                <<[event |-> "TokenCreated", tokenId |-> id, creator |-> k.creator,
                   name |-> k.name, totalSupply |-> k.totalSupply]>>
           /\ UNCHANGED <<admin, nextTransferId, nextUserId, transfers, users,
                          addressToUserId, userTransferIds>>
    ]_vars

\* a class has just been minted by an account that already holds another
\* class, while the units of an earlier class are split between two accounts
C16_Witness ==
  /\ last.op = "createToken"
  /\ \E id \in Minted, old \in Minted, a \in Addr, b \in Addr :
       /\ id + 1 = nextTokenId /\ old < id /\ a # b
       /\ tokens[old].balance[a] > 0 /\ tokens[old].balance[b] > 0
       /\ Len(userTokenIds[tokens[id].creator]) >= 2
       /\ tokens[id].balance[tokens[id].creator] = tokens[id].totalSupply

\* ---------------------------------------------------------------- C17
Registered == {i \in UserIds : i < nextUserId}
AlreadyRegistered == "User already registered"

\* C17 (as claimed): once an account has a user record, every
\* requestUserRole by it fails with "User already registered", whatever the
\* record's status and whatever the role passed.
C17_AlwaysAlreadyRegistered ==
  \A c \in AllRegisterCalls :
    IsRegistered(c[1]) =>
      LET r == requestUserRole(Storage, c[1], c[2]) IN
      /\ r.err = AlreadyRegistered
      /\ Commit(Storage, r) = Storage

\* C17 (amended): once an account has a user record, every requestUserRole
\* by it fails and changes nothing, whatever the record's status: with
\* "User already registered" when the role passed is one of the four roles,
\* with "Invalid role" otherwise.  In every reachable state an account has
\* at most one user record, the one addressToUserId names.
C17_OneRecordPerAccount ==
  /\ \A c \in AllRegisterCalls :
       IsRegistered(c[1]) =>
         LET r == requestUserRole(Storage, c[1], c[2]) IN
         /\ r.err = IF c[2] \in Roles THEN AlreadyRegistered ELSE "Invalid role"
         /\ Commit(Storage, r) = Storage
         /\ Logged("requestUserRole", r) = last
  /\ \A a \in Addr :
       LET records == {i \in Registered : users[i].userAddress = a} IN
       /\ Cardinality(records) <= 1
       /\ records = IF IsRegistered(a) THEN {addressToUserId[a]} ELSE {}
  /\ \A i \in Registered : users[i].id = i /\ users[i].role \in Roles

\* a Rejected, a Canceled and an Approved account are registered, and a
\* second request is refused to each of them
C17_Witness ==
  \E a \in Addr, b \in Addr :
    /\ IsRegistered(a) /\ IsRegistered(b)
    /\ users[addressToUserId[a]].status \in {"Rejected", "Canceled"}
    /\ users[addressToUserId[b]].status = "Approved"
    /\ requestUserRole(Storage, a, CONSUMER_ROLE).err = AlreadyRegistered
    /\ requestUserRole(Storage, b, users[addressToUserId[b]].role).err = AlreadyRegistered

\* ---------------------------------------------------------------- C18
UnauthorizedAdmin == "Only admin can change user status"
\* a call leaves the status of every existing user record as it is
KeepsStatuses(r) ==
  \A i \in Registered : Commit(Storage, r).users[i].status = users[i].status

C18_CallGuarded ==
  /\ admin = Admin
  /\ \A c \in AllStatusCalls :
       ~isAdmin(Storage, c[1]) =>
         LET r == changeStatusUser(Storage, c[1], c[2], c[3]) IN
         /\ r.err = UnauthorizedAdmin
         /\ Commit(Storage, r) = Storage
         /\ Logged("changeStatusUser", r) = last
  /\ \A c \in AllRegisterCalls : KeepsStatuses(requestUserRole(Storage, c[1], c[2]))
  /\ \A c \in AllCreateCalls :
       KeepsStatuses(createToken(Storage, c[1], c[2][1], c[2][2], "{}", c[3]))
  /\ \A c \in AllTransferCalls : KeepsStatuses(transfer(Storage, c[1], c[2], c[3], c[4]))
  /\ \A c \in AllSettleCalls :
       /\ KeepsStatuses(acceptTransfer(Storage, c[1], c[2]))
       /\ KeepsStatuses(rejectTransfer(Storage, c[1], c[2]))

\* C18: admin exclusivity.  The admin is the deployer and never changes;
\* changeStatusUser by any other account fails with "Only admin can change
\* user status" and changes nothing; no call of another function changes
\* the status of an existing user; so every step that changes a user's
\* status is a changeStatusUser, by the admin, naming that user and status.
C18_AdminExclusivity ==
  /\ []C18_CallGuarded
  /\ [][ \A i \in Registered :
           users'[i].status # users[i].status =>
             /\ last'.op = "changeStatusUser"
             /\ last'.events =
                  <<[event |-> "UserStatusChanged", user |-> users[i].userAddress,
                     status |-> users'[i].status]>>
             /\ \A j \in Registered \ {i} : users'[j] = users[j]
       ]_vars

\* a Pending user, whom an Approved user and the user itself try in vain to
\* approve
C18_Witness ==
  \E a \in Addr, b \in Addr :
    /\ a # admin /\ b # admin /\ a # b
    /\ IsApproved(a)
    /\ IsRegistered(b) /\ users[addressToUserId[b]].status = "Pending"
    /\ changeStatusUser(Storage, a, b, "Approved").err = UnauthorizedAdmin
    /\ changeStatusUser(Storage, b, b, "Approved").err = UnauthorizedAdmin
    /\ changeStatusUser(Storage, admin, b, "Approved").err = ""

\* ---------------------------------------------------------------- C19
\* C19 (as claimed): a user record is created with status Pending, and once
\* its status has left Pending no step makes it Pending again.
C19_NoPathBackToPending ==
  [][ /\ nextUserId' # nextUserId => users'[nextUserId].status = "Pending"
      /\ \A i \in Registered :
           users[i].status # "Pending" => users'[i].status # "Pending"
    ]_vars

\* ---------------------------------------------------------------- C20
\* the elements of a set of numbers, in increasing order
RECURSIVE Ascending(_)
Ascending(S) ==
  IF S = {} THEN <<>>
  ELSE LET m == CHOOSE x \in S : \A y \in S : y <= x
       IN Append(Ascending(S \ {m}), m)

C20_HistoryExact ==
  \A a \in Addr :
    getUserTransfers(Storage, a) =
      Ascending({t \in Requested : transfers[t].from = a \/ transfers[t].to = a})

\* C20: in every reachable state getUserTransfers(p) is exactly the list of
\* the ids of the requests whose from or to is p, in increasing order, each
\* id once; a step only appends to a list: the id of a new request, to the
\* lists of its two parties; no id is ever removed, whatever becomes of the
\* request.
C20_TransferHistory ==
  /\ []C20_HistoryExact
  /\ [][ \A a \in Addr :
           LET old == userTransferIds[a]
               new == userTransferIds'[a]
           IN /\ Len(new) >= Len(old)
              /\ SubSeq(new, 1, Len(old)) = old
              /\ new # old =>
                   /\ new = Append(old, nextTransferId)
                   /\ a \in {transfers'[nextTransferId].from, transfers'[nextTransferId].to}
       ]_vars

\* an account is the recipient of an Accepted request and the sender of a
\* later Rejected one, both in its list, and a third request is not
C20_Witness ==
  \E a \in Addr, t \in Requested, u \in Requested, v \in Requested :
    /\ transfers[t].to = a /\ transfers[t].status = "Accepted"
    /\ transfers[u].from = a /\ transfers[u].status = "Rejected"
    /\ transfers[v].from # a /\ transfers[v].to # a
    /\ getUserTransfers(Storage, a) = <<t, u>>

\* ---------------------------------------------------------------- C21
\* the events a call emits: one event `ev` when it returns normally, none
\* when it reverts, in which case the receipt kept is the one before
Emits(op, r, ev) ==
  /\ r.err = "" => r.events = <<ev>> /\ Logged(op, r) = [op |-> op, events |-> <<ev>>]
  /\ r.err # "" => r.events = <<>> /\ Logged(op, r) = last

C21_CallEmits ==
  /\ \A c \in AllRegisterCalls :
       Emits("requestUserRole", requestUserRole(Storage, c[1], c[2]),
             [event |-> "UserRoleRequested", user |-> c[1], role |-> c[2]])
  /\ \A c \in AllStatusCalls :
       Emits("changeStatusUser", changeStatusUser(Storage, c[1], c[2], c[3]),
             [event |-> "UserStatusChanged", user |-> c[2], status |-> c[3]])
  /\ \A c \in AllCreateCalls :
       Emits("createToken", createToken(Storage, c[1], c[2][1], c[2][2], "{}", c[3]),
             [event |-> "TokenCreated", tokenId |-> nextTokenId, creator |-> c[1],
              name |-> c[2][1], totalSupply |-> c[2][2]])
  /\ \A c \in AllTransferCalls :
       Emits("transfer", transfer(Storage, c[1], c[2], c[3], c[4]),
             [event |-> "TransferRequested", transferId |-> nextTransferId,
              from |-> c[1], to |-> c[2], tokenId |-> c[3], amount |-> c[4]])
  /\ \A c \in AllSettleCalls :
       /\ Emits("acceptTransfer", acceptTransfer(Storage, c[1], c[2]),
                [event |-> "TransferAccepted", transferId |-> c[2]])
       /\ Emits("rejectTransfer", rejectTransfer(Storage, c[1], c[2]),
                [event |-> "TransferRejected", transferId |-> c[2]])

\* the kind of event of each function
EventOf(op) ==
  CASE op = "requestUserRole"  -> "UserRoleRequested"
    [] op = "changeStatusUser" -> "UserStatusChanged"
    [] op = "createToken"      -> "TokenCreated"
    [] op = "transfer"         -> "TransferRequested"
    [] op = "acceptTransfer"   -> "TransferAccepted"
    [] op = "rejectTransfer"   -> "TransferRejected"
    [] OTHER                   -> "none"

C22_IdsConsecutive ==
  /\ nextUserId >= 1 /\ nextTokenId >= 1 /\ nextTransferId >= 1
  /\ \A i \in UserIds : users[i].id = IF i < nextUserId THEN i ELSE 0
  /\ \A i \in TokenIds : tokens[i].id = IF i < nextTokenId THEN i ELSE 0
  /\ \A i \in TransferIds : transfers[i].id = IF i < nextTransferId THEN i ELSE 0
  /\ \A i \in UserIds : i >= nextUserId => users[i] = ZeroUser
  /\ \A i \in TokenIds : i >= nextTokenId => tokens[i] = ZeroToken
  /\ \A i \in TransferIds : i >= nextTransferId => transfers[i] = ZeroTransfer
  /\ \A a \in Addr : addressToUserId[a] < nextUserId

\* a call that reverts consumes no id
C22_FailureKeepsCounters ==
  LET Kept(r) ==
        r.err # "" =>
          LET post == Commit(Storage, r) IN
          /\ post.nextUserId = nextUserId
          /\ post.nextTokenId = nextTokenId
          /\ post.nextTransferId = nextTransferId
  IN
  /\ \A c \in AllRegisterCalls : Kept(requestUserRole(Storage, c[1], c[2]))
  /\ \A c \in AllStatusCalls : Kept(changeStatusUser(Storage, c[1], c[2], c[3]))
  /\ \A c \in AllCreateCalls :
       Kept(createToken(Storage, c[1], c[2][1], c[2][2], "{}", c[3]))
  /\ \A c \in AllTransferCalls : Kept(transfer(Storage, c[1], c[2], c[3], c[4]))
  /\ \A c \in AllSettleCalls :
       /\ Kept(acceptTransfer(Storage, c[1], c[2]))
       /\ Kept(rejectTransfer(Storage, c[1], c[2]))

\* C22: user, token and transfer ids are allocated consecutively from 1,
\* one id per successful requestUserRole, createToken or transfer and none
\* by any other call or by a call that reverts; a transfer made after a
\* request was rejected gets the next id and a new Pending request, and
\* leaves the rejected request as it is.
C22_IdAllocation ==
  /\ []C22_IdsConsecutive
  /\ []C22_FailureKeepsCounters
  /\ [][ /\ nextUserId' = nextUserId + (IF last'.op = "requestUserRole" THEN 1 ELSE 0)
         /\ nextTokenId' = nextTokenId + (IF last'.op = "createToken" THEN 1 ELSE 0)
         /\ nextTransferId' = nextTransferId + (IF last'.op = "transfer" THEN 1 ELSE 0)
         /\ last'.op = "transfer" =>
              /\ transfers'[nextTransferId].id = nextTransferId
              /\ transfers'[nextTransferId].status = "Pending"
              /\ \A t \in Requested : transfers'[t] = transfers[t]
       ]_vars

\* a request was rejected and its sender has issued the same request again:
\* the new one is Pending under the next id, the old one is still Rejected
C22_Witness ==
  /\ last.op = "transfer"
  /\ nextUserId > 2 /\ nextTokenId > 2
  /\ \E t \in Requested, u \in Requested :
       /\ u = t + 1 /\ u + 1 = nextTransferId
       /\ transfers[t].status = "Rejected"
       /\ transfers[u].status = "Pending"
       /\ transfers[u].from = transfers[t].from /\ transfers[u].to = transfers[t].to
       /\ transfers[u].tokenId = transfers[t].tokenId
       /\ transfers[u].amount = transfers[t].amount

\* ---------------------------------------------------------------- C23
\* a token record without its balance table
Description(k) ==
  [id |-> k.id, creator |-> k.creator, name |-> k.name, totalSupply |-> k.totalSupply,
   features |-> k.features, tokenType |-> k.tokenType, parentId |-> k.parentId,
   dateCreated |-> k.dateCreated]

\* C23: once a class is minted, no step changes its id, creator, name,
\* totalSupply, features, kind, parentId or creation date; only its balance
\* table changes.
C23_ClassImmutable ==
  [][ \A id \in Minted :
        /\ id \in 1..(nextTokenId' - 1)
        /\ Description(tokens'[id]) = Description(tokens[id])
    ]_vars

\* the balance table of the first class has changed since it was minted,
\* two requests for it were settled and two more classes were minted
C23_Witness ==
  /\ nextTokenId = MaxClasses + 1
  /\ tokens[1].balance[tokens[1].creator] < tokens[1].totalSupply
  /\ \E t \in Requested, u \in Requested :
       /\ transfers[t].tokenId = 1 /\ transfers[t].status = "Accepted"
       /\ transfers[u].tokenId = 1 /\ transfers[u].status = "Rejected"

\* ---------------------------------------------------------------- C24
\* the Pending requests of sender a for class id
PendingOf(a, id) ==
  {t \in Requested : /\ transfers[t].status = "Pending"
                      /\ transfers[t].from = a
                      /\ transfers[t].tokenId = id}
\* the units they name
PendingAmount(a, id) ==
  SumOver([t \in TransferIds |-> transfers[t].amount], PendingOf(a, id))

\* C24 (as claimed): the units named in a Pending request are locked.  In
\* every reachable state, for every account and class, the account's balance
\* is at least the sum of the amounts of its Pending requests for the class.
C24_PendingUnitsLocked ==
  \A a \in Addr, id \in Minted :
    tokens[id].balance[a] >= PendingAmount(a, id)

\* ---------------------------------------------------------------- C25
\* C25 (as claimed): all roles can create tokens.  An Approved account whose
\* role is not Producer that calls createToken with parentId 0 (and a valid
\* name and supply) succeeds and a class is created.
C25_AllRolesCanCreate ==
  \A a \in Addr :
    (IsApproved(a) /\ RoleOf(a) # PRODUCER_ROLE) =>
      LET r == createToken(Storage, a, "T", 1, "{}", 0) IN
      /\ r.err = ""
      /\ Commit(Storage, r).nextTokenId = nextTokenId + 1

\* ---------------------------------------------------------------- C26
\* the kind of parent a role mints from
InputOf(role) ==
  CASE role = FACTORY_ROLE  -> "RawMaterial"
    [] role = RETAILER_ROLE -> "ProcessedProduct"
    [] OTHER                -> "none"
\* a has received units of class id
HasReceived(a, id) ==
  \E t \in Requested :
    /\ transfers[t].to = a /\ transfers[t].tokenId = id
    /\ transfers[t].status = "Accepted"

\* C26: ownership of the parent is not required to mint.  An Approved
\* Factory or Retailer mints from every existing parent of the kind its role
\* requires, whatever its balance of the parent (also 0, never having
\* received it), and the mint leaves the parent class and its balances as
\* they were.
C26_ParentNotOwned ==
  \A a \in Addr, parent \in Minted :
    (/\ IsApproved(a)
     /\ RoleOf(a) \in {FACTORY_ROLE, RETAILER_ROLE}
     /\ tokens[parent].tokenType = InputOf(RoleOf(a)))
    => LET r == createToken(Storage, a, "T", 1, "{}", parent)
           post == Commit(Storage, r)
       IN /\ r.err = ""
          /\ post.tokens[nextTokenId].parentId = parent
          /\ post.tokens[nextTokenId].creator = a
          /\ post.tokens[parent] = tokens[parent]

\* a Factory and a Retailer have each minted from a parent of which they
\* hold nothing and have never received anything
C26_Witness ==
  \E x \in Minted, y \in Minted :
    /\ tokens[x].tokenType = "ProcessedProduct"
    /\ tokens[y].tokenType = "FinalProduct"
    /\ \A id \in {x, y} :
         /\ tokens[tokens[id].parentId].balance[tokens[id].creator] = 0
         /\ ~HasReceived(tokens[id].creator, tokens[id].parentId)
         /\ tokens[id].creator # tokens[tokens[id].parentId].creator

WithStatus(s, a, st) == [s EXCEPT !.users[s.addressToUserId[a]].status = st]

\* C28: acceptTransfer and rejectTransfer never read the user registry.
\* In every reachable state, for every request, caller, registered account
\* and status: the outcome of accept and of reject (error, events, and the
\* storage written) is the same whatever the status of that account.  In
\* particular a Pending request whose sender or recipient is no longer
\* Approved is still rejected by its recipient, and accepted whenever the
\* sender's balance covers it, and that accept credits the recipient and
\* debits the sender.
C28_SettleIgnoresRegistry ==
  /\ \A t \in Requested, c \in Addr, a \in Users, st \in UserStatus :
       IsRegistered(a) =>
         LET d == WithStatus(Storage, a, st)
             ra == acceptTransfer(Storage, c, t)
             da == acceptTransfer(d, c, t)
             rr == rejectTransfer(Storage, c, t)
             dr == rejectTransfer(d, c, t)
         IN /\ da.err = ra.err /\ da.events = ra.events
            /\ ra.err = "" => da.s = WithStatus(ra.s, a, st)
            /\ dr.err = rr.err /\ dr.events = rr.events
            /\ rr.err = "" => dr.s = WithStatus(rr.s, a, st)
  /\ \A t \in Requested :
       LET x == transfers[t] IN
       (x.status = "Pending" /\ (~IsApproved(x.from) \/ ~IsApproved(x.to))) =>
         /\ rejectTransfer(Storage, x.to, t).err = ""
         /\ tokens[x.tokenId].balance[x.from] >= x.amount =>
              LET r == acceptTransfer(Storage, x.to, t) IN
              /\ r.err = ""
              /\ r.s.tokens[x.tokenId].balance[x.to]
                   = tokens[x.tokenId].balance[x.to] + x.amount
              /\ r.s.tokens[x.tokenId].balance[x.from]
                   = tokens[x.tokenId].balance[x.from] - x.amount

\* the latest call accepted a request one of whose parties is Rejected or
\* Canceled, and the recipient holds the units
C28_Witness ==
  /\ last.op = "acceptTransfer"
  /\ \E t \in Requested :
       LET x == transfers[t] IN
       /\ last.events[1].transferId = t
       /\ x.status = "Accepted"
       /\ \E a \in {x.from, x.to} :
            users[addressToUserId[a]].status \in {"Rejected", "Canceled"}
       /\ tokens[x.tokenId].balance[x.to] >= x.amount

\* ---------------------------------------------------------------- C29
\* the place of a role in the chain Producer, Factory, Retailer, Consumer
Rank(role) ==
  CASE role = PRODUCER_ROLE -> 1
    [] role = FACTORY_ROLE  -> 2
    [] role = RETAILER_ROLE -> 3
    [] role = CONSUMER_ROLE -> 4
    [] OTHER                -> 0

C29_Holders ==
  \A id \in Minted, a \in Addr :
    tokens[id].balance[a] > 0 =>
      /\ IsRegistered(a)
      /\ IsRegistered(tokens[id].creator)
      /\ \/ a = tokens[id].creator
         \/ Rank(RoleOf(a)) > Rank(RoleOf(tokens[id].creator))

C29_RoleKept ==
  \A a \in Addr :
    IsRegistered(a) =>
      /\ addressToUserId'[a] = addressToUserId[a]
      /\ users'[addressToUserId[a]].role = RoleOf(a)
      /\ users'[addressToUserId[a]].userAddress = a

\* C29: the role of a registered account never changes, and in every
\* reachable state every account with a positive balance of a class is
\* registered and is the creator of the class or has a role strictly
\* downstream of the creator's role in Producer, Factory, Retailer,
\* Consumer.
C29_HolderInvariant == []C29_Holders /\ [][C29_RoleKept]_vars

\* a class created by a Factory has reached the Retailer, and a class
\* created by a Producer is held by a Factory
C29_Witness ==
  /\ \E id \in Minted, a \in Addr :
       /\ RoleOf(tokens[id].creator) = FACTORY_ROLE
       /\ a # tokens[id].creator /\ tokens[id].balance[a] > 0
  /\ \E id \in Minted, a \in Addr :
       /\ RoleOf(tokens[id].creator) = PRODUCER_ROLE
       /\ a # tokens[id].creator /\ tokens[id].balance[a] > 0

\* ---------------------------------------------------------------- C30
\* no request names a Consumer as its sender, and no transfer call made by
\* a Consumer succeeds
C30_NoConsumerSender ==
  /\ \A t \in Requested :
       /\ IsRegistered(transfers[t].from)
       /\ RoleOf(transfers[t].from) # CONSUMER_ROLE
  /\ \A c \in AllTransferCalls :
       IsConsumer(c[1]) => transfer(Storage, c[1], c[2], c[3], c[4]).err # ""

C30_BalanceKept ==
  \A a \in Addr, id \in TokenIds :
    IsConsumer(a) => tokens'[id].balance[a] >= tokens[id].balance[a]

\* C30: the balance of an account whose role is Consumer never decreases,
\* for any class, in any step: no request ever has a Consumer as its
\* sender, every transfer call of a Consumer fails, and so no accept
\* debits a Consumer.
C30_ConsumerKeeps == []C30_NoConsumerSender /\ [][C30_BalanceKept]_vars

\* a Consumer holds units of a class that it received by an accept
C30_Witness ==
  \E t \in Requested :
    LET x == transfers[t] IN
    /\ x.status = "Accepted"
    /\ IsConsumer(x.to)
    /\ tokens[x.tokenId].balance[x.to] >= x.amount
    /\ x.amount > 0

\* ---------------------------------------------------------------- C31
\* C31: reject by the recipient of a Pending request always succeeds,
\* whatever the balances and the user statuses, and writes the status
\* Rejected and nothing else; so in every reachable state every Pending
\* request has a settlement step that is enabled and takes it to a
\* terminal status.
C31_RejectAlwaysPossible ==
  \A t \in Requested :
    transfers[t].status = "Pending" =>
      LET r == rejectTransfer(Storage, transfers[t].to, t) IN
      /\ r.err = ""
      /\ r.s = [Storage EXCEPT !.transfers[t].status = "Rejected"]
      /\ ENABLED (RejectTransfer(MarketSettleCalls)
                    /\ transfers'[t].status = "Rejected")

\* the latest call rejected a request that could not have been accepted
\* (the sender's balance is below its amount) and whose recipient is
\* no longer Approved
C31_Witness ==
  /\ last.op = "rejectTransfer"
  /\ \E t \in Requested :
       LET x == transfers[t] IN
       /\ last.events[1].transferId = t
       /\ x.status = "Rejected"
       /\ tokens[x.tokenId].balance[x.from] < x.amount
       /\ ~IsApproved(x.to)

\* ---------------------------------------------------------------- C32
\* every transfer call with an amount above the largest uint96 fails and
\* writes nothing, with "Amount too large" when the sender is Approved, the
\* class exists and the balance covers the amount; every recorded amount is
\* positive and at most the largest uint96
C32_AmountBounded ==
  /\ \A c \in AllTransferCalls :
       c[4] > MaxUint96 =>
         LET r == transfer(Storage, c[1], c[2], c[3], c[4]) IN
         /\ r.err # ""
         /\ Commit(Storage, r) = Storage
         /\ (IsRegistered(c[1]) /\ IsApproved(c[1]) /\ c[3] \in Minted
               /\ tokens[c[3]].balance[c[1]] >= c[4])
            => r.err = "Amount too large"
  /\ \A t \in Requested :
       transfers[t].amount > 0 /\ transfers[t].amount <= MaxUint96

\* a successful transfer records the amount it was called with (the amount
\* of its event), and a successful accept moves the recorded amount
C32_AmountExact ==
  /\ last'.op = "transfer" =>
       LET ev == last'.events[1] IN
       /\ ev.transferId = nextTransferId
       /\ transfers'[ev.transferId].amount = ev.amount
  /\ last'.op = "acceptTransfer" =>
       LET x == transfers[last'.events[1].transferId] IN
       /\ transfers'[x.id].amount = x.amount
       /\ tokens'[x.tokenId].balance[x.to]
            = tokens[x.tokenId].balance[x.to] + x.amount
       /\ tokens'[x.tokenId].balance[x.from]
            = tokens[x.tokenId].balance[x.from] - x.amount

\* C32: transfer fails, creating no request, when the amount exceeds the
\* largest uint96 even if the sender's balance covers it; so the amount
\* recorded in every request is the amount passed to transfer, untruncated,
\* with 0 < amount <= the largest uint96, and accept moves exactly it.
C32_NoTruncation == []C32_AmountBounded /\ [][C32_AmountExact]_vars

\* the latest call recorded a request for the largest uint96 from a sender
\* that holds more, whose call for one unit more is refused although the
\* balance covers it
C32_Witness ==
  /\ last.op = "transfer"
  /\ \E t \in Requested :
       LET x == transfers[t] IN
       /\ last.events[1].transferId = t
       /\ last.events[1].amount = MaxUint96
       /\ x.status = "Pending"
       /\ x.amount = MaxUint96
       /\ tokens[x.tokenId].balance[x.from] >= MaxUint96 + 1
       /\ transfer(Storage, x.from, x.to, x.tokenId, MaxUint96 + 1).err
            = "Amount too large"

====
